---- MODULE Spec2Model ----
(***************************************************************************)
(* Model of apps/src/bin/publisher.rs: the proof-composition pipeline of   *)
(* main() (local proving, assumption chaining, remote proving, seal        *)
(* encoding, statement decoding, call building) and TxSender::send.        *)
(*                                                                         *)
(* Bytes are naturals 0..255, byte strings are sequences of bytes.  An     *)
(* Option is a sequence of length 0 (None) or 1 (Some).  A Result is a     *)
(* record [ok, val].  A U256 is kept as ruint keeps it, least significant  *)
(* digit first (32 base-256 digits), so the ABI codec has to reverse it.   *)
(***************************************************************************)
EXTENDS Integers, Sequences, FiniteSets, TLC

VARIABLES pc, result, args, tx_sender, local_env, local_receipt, local_res,
          remote_input, remote_env, remote_receipt, seal, journal, x,
          calldata, runtime, sends, tx_outcome, started, decoded, assumed

vars == <<pc, result, args, tx_sender, local_env, local_receipt, local_res,
          remote_input, remote_env, remote_receipt, seal, journal, x,
          calldata, runtime, sends, tx_outcome, started, decoded, assumed>>

----------------------------------------------------------------------------
\* Bounds of the model.

\* the CLI arguments n, e, x range over 0..MaxArg
MaxArg == 1

\* the short proof seals the proving engine may return have up to MaxSealLen bytes
MaxSealLen == 2

----------------------------------------------------------------------------
\* Byte-level helpers.

\* the ABI word size in bytes
WordSize == 32

Zeros(n) == [i \in 1..n |-> 0]

Reverse(s) == [i \in 1..Len(s) |-> s[Len(s) + 1 - i]]

\* the k-th base-256 digit (k = 0 least significant) of a value below 2^31
Digit(v, k) == IF k > 3 THEN 0 ELSE (v \div (256 ^ k)) % 256

RECURSIVE LEValue(_)
LEValue(bs) == IF bs = <<>> THEN 0 ELSE Head(bs) + 256 * LEValue(Tail(bs))

\* byte i of bs, zero beyond its end (bytemuck::pod_collect_to_vec pads)
PaddedByte(bs, i) == IF i <= Len(bs) THEN bs[i] ELSE 0

Ok(v) == [ok |-> TRUE, val |-> v]

Err(e) == [ok |-> FALSE, val |-> e]

----------------------------------------------------------------------------
\* risc0 serde: the journal of the local guest and journal.decode().

\* a u64 is written as two little-endian u32 words, low word first
SerializeU64(v) == [i \in 1..8 |-> Digit(v, i - 1)]

SerializeTuple(t) == SerializeU64(t[1]) \o SerializeU64(t[2]) \o SerializeU64(t[3])

DeserializeU64(bs, at) == LEValue([i \in 1..8 |-> PaddedByte(bs, at + i)])

\* local_receipt.journal.decode::<(u64, u64, u64)>(): six words are read,
\* fewer is an error, trailing data is not looked at
JournalDecode(bs) ==
    IF (Len(bs) + 3) \div 4 < 6
    THEN Err("JournalDecodeError")
    ELSE Ok(<<DeserializeU64(bs, 0), DeserializeU64(bs, 8), DeserializeU64(bs, 16)>>)

----------------------------------------------------------------------------
\* alloy ABI codec.

\* u64::abi_encode(): one big-endian 32-byte word
AbiEncodeU64(v) == [i \in 1..WordSize |-> Digit(v, WordSize - i)]

\* U256 <-> big-endian word
U256FromBE(w) == Reverse(w)

U256ToBE(u) == Reverse(u)

AbiEncodeU256(u) == U256ToBE(u)

\* U256::abi_decode(data, validate): the decoder takes the first word and
\* fails on an overrun; with validate the re-encoding must equal the input
AbiDecodeU256(data, validate) ==
    IF Len(data) < WordSize
    THEN Err("Overrun")
    ELSE LET u == U256FromBE(SubSeq(data, 1, WordSize))
         IN  IF validate /\ AbiEncodeU256(u) # data
             THEN Err("ReserMismatch")
             ELSE Ok(u)

StatementDecode_lenient(bytes) == AbiDecodeU256(bytes, FALSE)

\* line 160: U256::abi_decode(&journal, true)
StatementDecode(bytes) == AbiDecodeU256(bytes, TRUE)

\* selector of set(uint256,bytes): keccak256 of the signature, 0x8b282947
SetSelector == <<139, 40, 41, 71>>

PadLen(n) == (WordSize - (n % WordSize)) % WordSize

SetCallAbiEncode_badOffset(u, s) ==
    SetSelector \o AbiEncodeU256(u) \o AbiEncodeU64(WordSize)
                \o AbiEncodeU64(Len(s)) \o s \o Zeros(PadLen(Len(s)))

\* IEvenNumberCalls::set(setCall { x, seal }).abi_encode():
\* selector, head (x, offset of seal), tail (length, bytes, zero padding)
SetCallAbiEncode(u, s) ==
    SetSelector \o AbiEncodeU256(u) \o AbiEncodeU64(2 * WordSize)
                \o AbiEncodeU64(Len(s)) \o s \o Zeros(PadLen(Len(s)))

----------------------------------------------------------------------------
\* risc0 receipts and the seal encoder.

\* selector of the Groth16 verifier parameters (first 4 bytes of their digest)
Groth16Selector == <<49, 15, 229, 152>>

InnerGroth16_any(inner) == Ok(SubSeq(inner.seal, 1, Len(inner.seal)))

\* InnerReceipt::groth16(): the Groth16 receipt, an error for any other variant
InnerGroth16(inner) ==
    IF inner.variant = "Groth16"
    THEN Ok(inner.seal)
    ELSE Err("UnsupportedProofVariant")

\* groth16::encode(seal): selector followed by the seal
Groth16Encode(s) == Groth16Selector \o s

RemoteInput_first(bs) == AbiEncodeU64(JournalDecode(bs).val[1])

\* lines 133-134: decode the local journal, ABI-encode its third component
RemoteInput(bs) == AbiEncodeU64(JournalDecode(bs).val[3])

\* The assumption the remote guest resolves: present, a real proof, and a
\* proof of the journal the forwarded input was taken from.
AssumptionValid(env) ==
    /\ env.assumption # <<>>
    /\ env.assumption[1].inner.variant # "Fake"
    /\ JournalDecode(env.assumption[1].journal).ok
    /\ env.input = AbiEncodeU64(JournalDecode(env.assumption[1].journal).val[3])

----------------------------------------------------------------------------
\* What the external collaborators may hand back.

U64Samples == {1, 258}

Tuples == U64Samples \X U64Samples \X U64Samples

LocalJournals ==
    {SerializeTuple(t) : t \in Tuples}
        \cup {<<>>, SubSeq(SerializeTuple(<<1, 1, 258>>), 1, 16)}

LocalVariants == {"Composite", "Fake"}

RemoteVariants == {"Groth16", "Succinct", "Fake"}

SealBytes == {255}

RECURSIVE SeqsUpTo(_, _)
SeqsUpTo(S, n) ==
    IF n = 0 THEN {<<>>}
    ELSE LET shorter == SeqsUpTo(S, n - 1)
         IN  shorter \cup {Append(s, b) : s \in shorter, b \in S}

\* seals around a word boundary once the 4-byte selector is prepended
Seals ==
    SeqsUpTo(SealBytes, MaxSealLen)
        \cup {[i \in 1..(WordSize - 4) |-> i], [i \in 1..(WordSize - 3) |-> i]}

MaxWord == [i \in 1..WordSize |-> 255]

RemoteJournals ==
    {AbiEncodeU64(v) : v \in U64Samples}
        \cup {MaxWord, <<>>, SubSeq(AbiEncodeU64(258), 1, WordSize - 1),
              AbiEncodeU64(258) \o <<0>>, AbiEncodeU64(258) \o AbiEncodeU64(1)}

SendOutcomes == {"send_error", "confirm_error", "receipt", "dropped"}

StageOrder ==
    <<"TxSenderNew", "LocalEnvBuild", "LocalProve", "LocalJournalDecode",
      "RemoteEnvBuild", "RemoteProve", "SealEncode", "StatementDecode",
      "CallBuild", "RuntimeNew", "Send">>

----------------------------------------------------------------------------
\* The run of main().

Init ==
    /\ pc = "TxSenderNew"
    /\ result = "running"
    /\ args \in (0..MaxArg) \X (0..MaxArg) \X (0..MaxArg)
    /\ tx_sender = <<>>
    /\ local_env = <<>>
    /\ local_receipt = <<>>
    /\ local_res = <<>>
    /\ remote_input = <<>>
    /\ remote_env = <<>>
    /\ remote_receipt = <<>>
    /\ seal = <<>>
    /\ journal = <<>>
    /\ x = <<>>
    /\ calldata = <<>>
    /\ runtime = FALSE
    /\ sends = <<>>
    /\ tx_outcome = "none"
    /\ started = <<>>
    /\ decoded = [local |-> 0, remote |-> 0]
    /\ assumed = [local |-> 0, remote |-> 0]

\* the ? operator: the error leaves main at once
Abort(e) == pc' = "done" /\ result' = e

\* lines 112-117: TxSender::new parses the url, the key and the address
TxSenderNew ==
    /\ pc = "TxSenderNew"
    /\ started' = Append(started, "TxSenderNew")
    /\ \E ok \in BOOLEAN :
          IF ok
          THEN tx_sender' = <<"client">> /\ pc' = "LocalEnvBuild" /\ UNCHANGED result
          ELSE Abort("ConfigError") /\ UNCHANGED tx_sender
    /\ UNCHANGED <<args, local_env, local_receipt, local_res, remote_input,
                   remote_env, remote_receipt, seal, journal, x, calldata,
                   runtime, sends, tx_outcome, decoded, assumed>>

\* lines 121-122: ExecutorEnv::builder().write(&local_input)?.build()?
LocalEnvBuild ==
    /\ pc = "LocalEnvBuild"
    /\ started' = Append(started, "LocalEnvBuild")
    /\ \E ok \in BOOLEAN :
          IF ok
          THEN /\ local_env' = <<[assumption |-> <<>>, input |-> args]>>
               /\ pc' = "LocalProve"
               /\ UNCHANGED result
          ELSE Abort("EnvironmentBuildError") /\ UNCHANGED local_env
    /\ UNCHANGED <<args, tx_sender, local_receipt, local_res, remote_input,
                   remote_env, remote_receipt, seal, journal, x, calldata,
                   runtime, sends, tx_outcome, decoded, assumed>>

\* lines 125-127: LocalProver::new("local").prove(local_env, POWER_MODULUS_ELF)?
LocalProve ==
    /\ pc = "LocalProve"
    /\ local_env # <<>>
    /\ started' = Append(started, "LocalProve")
    /\ \/ Abort("ProvingError") /\ UNCHANGED local_receipt
       \/ \E v \in LocalVariants, j \in LocalJournals :
             /\ local_receipt' = <<[inner |-> [variant |-> v, seal |-> <<>>],
                                   journal |-> j]>>
             /\ pc' = "LocalJournalDecode"
             /\ UNCHANGED result
    /\ UNCHANGED <<args, tx_sender, local_env, local_res, remote_input,
                   remote_env, remote_receipt, seal, journal, x, calldata,
                   runtime, sends, tx_outcome, decoded, assumed>>

\* line 133: local_receipt.journal.decode()?
LocalJournalDecode ==
    /\ pc = "LocalJournalDecode"
    /\ local_receipt # <<>>
    /\ started' = Append(started, "LocalJournalDecode")
    /\ decoded' = [decoded EXCEPT !.local = @ + 1]
    /\ LET r == JournalDecode(local_receipt[1].journal)
       IN  IF r.ok
           THEN local_res' = <<r.val>> /\ pc' = "RemoteEnvBuild" /\ UNCHANGED result
           ELSE Abort("JournalDecodeError") /\ UNCHANGED local_res
    /\ UNCHANGED <<args, tx_sender, local_env, local_receipt, remote_input,
                   remote_env, remote_receipt, seal, journal, x, calldata,
                   runtime, sends, tx_outcome, assumed>>

RemoteEnvBuild_twice ==
    /\ pc = "RemoteEnvBuild"
    /\ local_res # <<>>
    /\ started' = Append(started, "RemoteEnvBuild")
    /\ remote_input' = <<RemoteInput(local_receipt[1].journal)>>
    /\ assumed' = [assumed EXCEPT !.local = @ + 2]
    /\ remote_env' = <<[assumption |-> local_receipt,
                        input |-> RemoteInput(local_receipt[1].journal)]>>
    /\ pc' = "RemoteProve"
    /\ UNCHANGED <<result, args, tx_sender, local_env, local_receipt, local_res,
                   remote_receipt, seal, journal, x, calldata, runtime, sends,
                   tx_outcome, decoded>>

\* lines 134-139: abi_encode of the selected component, add_assumption,
\* write_slice, build()?
RemoteEnvBuild ==
    /\ pc = "RemoteEnvBuild"
    /\ local_res # <<>>
    /\ started' = Append(started, "RemoteEnvBuild")
    /\ remote_input' = <<RemoteInput(local_receipt[1].journal)>>
    /\ assumed' = [assumed EXCEPT !.local = @ + 1]
    /\ \E ok \in BOOLEAN :
          IF ok
          THEN /\ remote_env' = <<[assumption |-> local_receipt,
                                   input |-> RemoteInput(local_receipt[1].journal)]>>
               /\ pc' = "RemoteProve"
               /\ UNCHANGED result
          ELSE Abort("EnvironmentBuildError") /\ UNCHANGED remote_env
    /\ UNCHANGED <<args, tx_sender, local_env, local_receipt, local_res,
                   remote_receipt, seal, journal, x, calldata, runtime, sends,
                   tx_outcome, decoded>>

RemoteProve_swallow ==
    /\ pc = "RemoteProve"
    /\ remote_env # <<>>
    /\ started' = Append(started, "RemoteProve")
    /\ \/ Abort("ProvingError") /\ UNCHANGED remote_receipt
       \/ \E v \in RemoteVariants, s \in Seals, j \in RemoteJournals :
             /\ remote_receipt' = <<[inner |-> [variant |-> v, seal |-> s],
                                    journal |-> j]>>
             /\ pc' = "SealEncode"
             /\ UNCHANGED result
    /\ UNCHANGED <<args, tx_sender, local_env, local_receipt, local_res,
                   remote_input, remote_env, seal, journal, x, calldata,
                   runtime, sends, tx_outcome, decoded, assumed>>

\* lines 142-149: default_prover().prove_with_ctx(remote_env, ctx,
\* IS_EVEN_ELF, &ProverOpts::groth16())?  The service validates the chained
\* assumption first; a request with a valid one can still fail in the engine.
RemoteProve ==
    /\ pc = "RemoteProve"
    /\ remote_env # <<>>
    /\ started' = Append(started, "RemoteProve")
    /\ \/ /\ ~AssumptionValid(remote_env[1])
          /\ Abort("AssumptionRejected")
          /\ UNCHANGED remote_receipt
       \/ /\ AssumptionValid(remote_env[1])
          /\ Abort("ProvingError")
          /\ UNCHANGED remote_receipt
       \/ /\ AssumptionValid(remote_env[1])
          /\ \E v \in RemoteVariants, s \in Seals, j \in RemoteJournals :
                /\ remote_receipt' = <<[inner |-> [variant |-> v, seal |-> s],
                                       journal |-> j]>>
                /\ pc' = "SealEncode"
                /\ UNCHANGED result
    /\ UNCHANGED <<args, tx_sender, local_env, local_receipt, local_res,
                   remote_input, remote_env, seal, journal, x, calldata,
                   runtime, sends, tx_outcome, decoded, assumed>>

SealEncode_skipDecode ==
    /\ pc = "SealEncode"
    /\ remote_receipt # <<>>
    /\ started' = Append(started, "SealEncode")
    /\ LET r == InnerGroth16(remote_receipt[1].inner)
       IN  IF r.ok
           THEN /\ seal' = <<Groth16Encode(r.val)>>
                /\ x' = <<Zeros(WordSize)>>
                /\ pc' = "CallBuild"
                /\ UNCHANGED result
           ELSE Abort(r.val) /\ UNCHANGED <<seal, x>>
    /\ UNCHANGED <<args, tx_sender, local_env, local_receipt, local_res,
                   remote_input, remote_env, remote_receipt, journal,
                   calldata, runtime, sends, tx_outcome, decoded, assumed>>

\* line 152: groth16::encode(remote_receipt.inner.groth16()?.seal.clone())?
SealEncode ==
    /\ pc = "SealEncode"
    /\ remote_receipt # <<>>
    /\ started' = Append(started, "SealEncode")
    /\ LET r == InnerGroth16(remote_receipt[1].inner)
       IN  IF r.ok
           THEN seal' = <<Groth16Encode(r.val)>> /\ pc' = "StatementDecode"
                /\ UNCHANGED result
           ELSE Abort(r.val) /\ UNCHANGED seal
    /\ UNCHANGED <<args, tx_sender, local_env, local_receipt, local_res,
                   remote_input, remote_env, remote_receipt, journal, x,
                   calldata, runtime, sends, tx_outcome, decoded, assumed>>

StatementDecodeStep_bestEffort ==
    /\ pc = "StatementDecode"
    /\ seal # <<>>
    /\ started' = Append(started, "StatementDecode")
    /\ journal' = <<remote_receipt[1].journal>>
    /\ decoded' = [decoded EXCEPT !.remote = @ + 1]
    /\ LET r == StatementDecode(remote_receipt[1].journal)
       IN  /\ x' = IF r.ok THEN <<r.val>> ELSE <<Zeros(WordSize)>>
           /\ pc' = "CallBuild"
           /\ UNCHANGED result
    /\ UNCHANGED <<args, tx_sender, local_env, local_receipt, local_res,
                   remote_input, remote_env, remote_receipt, seal, calldata,
                   runtime, sends, tx_outcome, assumed>>

\* lines 155-160: journal = remote_receipt.journal.bytes.clone();
\* x = U256::abi_decode(&journal, true).context("decoding journal data")?
StatementDecodeStep ==
    /\ pc = "StatementDecode"
    /\ seal # <<>>
    /\ started' = Append(started, "StatementDecode")
    /\ journal' = <<remote_receipt[1].journal>>
    /\ decoded' = [decoded EXCEPT !.remote = @ + 1]
    /\ LET r == StatementDecode(remote_receipt[1].journal)
       IN  IF r.ok
           THEN x' = <<r.val>> /\ pc' = "CallBuild" /\ UNCHANGED result
           ELSE Abort("MalformedJournal") /\ UNCHANGED x
    /\ UNCHANGED <<args, tx_sender, local_env, local_receipt, local_res,
                   remote_input, remote_env, remote_receipt, seal, calldata,
                   runtime, sends, tx_outcome, assumed>>

\* lines 165-169: the call payload of set(x, seal)
CallBuild ==
    /\ pc = "CallBuild"
    /\ x # <<>>
    /\ seal # <<>>
    /\ started' = Append(started, "CallBuild")
    /\ calldata' = <<SetCallAbiEncode(x[1], seal[1])>>
    /\ pc' = "RuntimeNew"
    /\ UNCHANGED <<result, args, tx_sender, local_env, local_receipt, local_res,
                   remote_input, remote_env, remote_receipt, seal, journal, x,
                   runtime, sends, tx_outcome, decoded, assumed>>

\* line 172: tokio::runtime::Runtime::new()?
RuntimeNew ==
    /\ pc = "RuntimeNew"
    /\ started' = Append(started, "RuntimeNew")
    /\ \E ok \in BOOLEAN :
          IF ok
          THEN runtime' = TRUE /\ pc' = "Send" /\ UNCHANGED result
          ELSE Abort("RuntimeError") /\ UNCHANGED runtime
    /\ UNCHANGED <<args, tx_sender, local_env, local_receipt, local_res,
                   remote_input, remote_env, remote_receipt, seal, journal, x,
                   calldata, sends, tx_outcome, decoded, assumed>>

Send_retry ==
    /\ pc = "Send"
    /\ calldata # <<>>
    /\ started' = Append(started, "Send")
    /\ sends' = Append(sends, calldata[1])
    /\ \E o \in SendOutcomes :
          /\ tx_outcome' = o
          /\ IF o \in {"send_error", "confirm_error"}
             THEN IF sends = <<>>
                  THEN pc' = "Send" /\ UNCHANGED result
                  ELSE Abort("SubmissionError")
             ELSE pc' = "done" /\ result' = "ok"
    /\ UNCHANGED <<args, tx_sender, local_env, local_receipt, local_res,
                   remote_input, remote_env, remote_receipt, seal, journal, x,
                   calldata, runtime, decoded, assumed>>

\* lines 60-74 and 176-178: one send_transaction(tx, None).await?, the
\* pending transaction awaited with ?, Ok(tx) for Some(receipt) and for None
\* alike; main drops the Option and returns Ok(())
Send ==
    /\ pc = "Send"
    /\ calldata # <<>>
    /\ started' = Append(started, "Send")
    /\ sends' = Append(sends, calldata[1])
    /\ \E o \in SendOutcomes :
          /\ tx_outcome' = o
          /\ IF o \in {"send_error", "confirm_error"}
             THEN Abort("SubmissionError")
             ELSE pc' = "done" /\ result' = "ok"
    /\ UNCHANGED <<args, tx_sender, local_env, local_receipt, local_res,
                   remote_input, remote_env, remote_receipt, seal, journal, x,
                   calldata, runtime, decoded, assumed>>

Next ==
    \/ TxSenderNew
    \/ LocalEnvBuild
    \/ LocalProve
    \/ LocalJournalDecode
    \/ RemoteEnvBuild
    \/ RemoteProve
    \/ SealEncode
    \/ StatementDecodeStep
    \/ CallBuild
    \/ RuntimeNew
    \/ Send

Spec == Init /\ [][Next]_vars

----------------------------------------------------------------------------
\* Properties.

Attempted(stage) == \E i \in 1..Len(started) : started[i] = stage

Failed == result \notin {"running", "ok"}

\* C1: a run attempts at most one send; a run that ends in success has made
\* exactly one; a send that fails ends the run with SubmissionError after
\* that single attempt.
C1_SingleSend ==
    /\ Len(sends) <= 1
    /\ (pc = "done" /\ result = "ok") => Len(sends) = 1
    /\ tx_outcome \in {"send_error", "confirm_error"}
          => pc = "done" /\ result = "SubmissionError" /\ Len(sends) = 1

C1_Witness ==
    pc = "done" /\ result = "SubmissionError" /\ Len(sends) = 1
                /\ tx_outcome = "send_error"

\* the stages whose failure each error reports
ErrorStages(e) ==
    CASE e = "ConfigError" -> {"TxSenderNew"}
      [] e = "EnvironmentBuildError" -> {"LocalEnvBuild", "RemoteEnvBuild"}
      [] e = "ProvingError" -> {"LocalProve", "RemoteProve"}
      [] e = "AssumptionRejected" -> {"RemoteProve"}
      [] e = "JournalDecodeError" -> {"LocalJournalDecode"}
      [] e = "UnsupportedProofVariant" -> {"SealEncode"}
      [] e = "MalformedJournal" -> {"StatementDecode"}
      [] e = "RuntimeError" -> {"RuntimeNew"}
      [] e = "SubmissionError" -> {"Send"}
      [] OTHER -> {}

\* C2: a failed stage is the last stage of the run: the run is over, its
\* result is that failure, and every stage that was started found all its
\* predecessors successful; a transaction is sent only after every earlier
\* stage succeeded.
C2_ErrorAborts ==
    /\ Failed => /\ pc = "done"
                 /\ started # <<>>
                 /\ started[Len(started)] \in ErrorStages(result)
    /\ (Failed /\ result # "SubmissionError") => sends = <<>>
    /\ Attempted("RemoteEnvBuild") => JournalDecode(local_receipt[1].journal).ok
    /\ Attempted("SealEncode") => AssumptionValid(remote_env[1])
    /\ Attempted("StatementDecode") => InnerGroth16(remote_receipt[1].inner).ok
    /\ Attempted("CallBuild") => StatementDecode(remote_receipt[1].journal).ok
    /\ sends # <<>> =>
          /\ tx_sender # <<>> /\ local_env # <<>> /\ local_receipt # <<>>
          /\ local_res # <<>> /\ remote_env # <<>> /\ remote_receipt # <<>>
          /\ seal # <<>> /\ x # <<>> /\ calldata # <<>> /\ runtime
          /\ InnerGroth16(remote_receipt[1].inner).ok
          /\ StatementDecode(remote_receipt[1].journal).ok

C2_Witness ==
    /\ pc = "done"
    /\ result = "MalformedJournal"
    /\ seal # <<>>
    /\ calldata = <<>>
    /\ sends = <<>>

\* C3: the stages start one after the other in the order local proving,
\* assumption chaining, remote proving, seal encoder, statement decoder, call
\* builder, sender, and a stage starts only when the artifact it consumes
\* exists.
C3_Sequential ==
    /\ Len(started) <= Len(StageOrder)
    /\ started = SubSeq(StageOrder, 1, Len(started))
    /\ Attempted("LocalProve") => local_env # <<>>
    /\ Attempted("LocalJournalDecode") => local_receipt # <<>>
    /\ Attempted("RemoteEnvBuild") => local_receipt # <<>> /\ local_res # <<>>
    /\ Attempted("RemoteProve") => remote_env # <<>>
    /\ Attempted("SealEncode") => remote_receipt # <<>>
    /\ Attempted("StatementDecode") => remote_receipt # <<>>
    /\ Attempted("CallBuild") => /\ seal # <<>>
                                 /\ x # <<>>
                                 /\ Attempted("StatementDecode")
    /\ Attempted("Send") => calldata # <<>>

C3_Witness == pc = "done" /\ result = "ok" /\ started = StageOrder

\* the third component of a serialized tuple, read off the bytes
ThirdComponent(bs) == LEValue(SubSeq(bs, 17, 24))

\* C4: the input written to the second stage is the ABI word of the third
\* component of the local journal and of nothing else: when the environment
\* has been built, a local journal gives the same input bytes exactly when
\* its third component is the same, whatever its first two.
C4_ForwardsOnlySelected ==
    Attempted("RemoteEnvBuild") =>
        /\ remote_input = <<AbiEncodeU64(ThirdComponent(local_receipt[1].journal))>>
        /\ remote_env # <<>> => remote_env[1].input = remote_input[1]
        /\ pc = "RemoteProve" =>
              \A t \in Tuples :
                  (t[3] = local_res[1][3])
                      <=> (RemoteInput(SerializeTuple(t)) = remote_env[1].input)

C4_Witness ==
    /\ remote_env # <<>>
    /\ local_res[1] = <<1, 1, 258>>
    /\ remote_env[1].input[31] = 1
    /\ remote_env[1].input[32] = 2

C6_UnsupportedVariant ==
    (Attempted("SealEncode") /\ remote_receipt[1].inner.variant # "Groth16") =>
        /\ pc = "done"
        /\ result = "UnsupportedProofVariant"
        /\ seal = <<>>
        /\ calldata = <<>>
        /\ sends = <<>>

C6_Witness ==
    /\ result = "UnsupportedProofVariant"
    /\ remote_receipt[1].inner.variant = "Succinct"
    /\ Len(remote_receipt[1].inner.seal) > 0

\* C7: a remote journal that is not exactly one 32-byte word ends the run in
\* the statement decoder with MalformedJournal: no statement, no call payload,
\* no send; a statement exists only for a one-word journal and is its value.
C7_StrictDecode ==
    Attempted("StatementDecode") =>
        LET j == remote_receipt[1].journal
        IN  /\ (Len(j) % WordSize # 0 \/ Len(j) # WordSize) =>
                  /\ pc = "done"
                  /\ result = "MalformedJournal"
                  /\ x = <<>>
                  /\ calldata = <<>>
                  /\ sends = <<>>
            /\ x # <<>> =>
                  /\ Len(j) = WordSize
                  /\ \A i \in 1..WordSize : x[1][i] = j[WordSize + 1 - i]

C7_Witness ==
    /\ result = "MalformedJournal"
    /\ Len(remote_receipt[1].journal) = 2 * WordSize

\* C8: a run that reports success obtained a transaction receipt.
C8_SuccessHasReceipt ==
    (pc = "done" /\ result = "ok") => tx_outcome = "receipt"

RECURSIVE BEValue(_)
BEValue(bs) ==
    IF bs = <<>> THEN 0
    ELSE 256 * BEValue(SubSeq(bs, 1, Len(bs) - 1)) + bs[Len(bs)]

\* a decoder of set(uint256,bytes) calldata that follows the offset it reads
DecodeSetCall(data) ==
    LET body == SubSeq(data, 5, Len(data))
        off  == BEValue(SubSeq(body, WordSize + 1, 2 * WordSize))
        len  == BEValue(SubSeq(body, off + 1, off + WordSize))
        padded == WordSize * ((len + WordSize - 1) \div WordSize)
    IN  [selector |-> SubSeq(data, 1, 4),
         xword |-> SubSeq(body, 1, WordSize),
         seal |-> SubSeq(body, off + WordSize + 1, off + WordSize + len),
         exact |-> /\ Len(body) = off + WordSize + padded
                   /\ \A i \in (off + WordSize + len + 1)..Len(body) : body[i] = 0]

C10_ReadOnly ==
    /\ local_receipt # <<>> => local_receipt' = local_receipt
    /\ remote_receipt # <<>> => remote_receipt' = remote_receipt

C10_Usage ==
    /\ decoded.local <= 1
    /\ decoded.remote <= 1
    /\ assumed.local <= 1
    /\ assumed.remote = 0
    /\ assumed.local = 1 => decoded.local = 1
    /\ remote_env # <<>> => remote_env[1].assumption = local_receipt
    /\ (decoded.remote = 1) <=> Attempted("StatementDecode")
    /\ pc = "done" =>
          /\ local_receipt # <<>> => decoded.local = 1
          /\ result = "ok" => /\ decoded.remote = 1
                              /\ assumed.local = 1

\* C10 (as amended): a receipt never changes once created; each is used as an
\* assumption at most once and decoded at most once; the local receipt is
\* decoded once and only then chained; the remote receipt is never an
\* assumption and is decoded exactly once in every run that reaches the
\* statement decoder, hence in every successful run.
C10_Lifecycle == [][C10_ReadOnly /\ C10_Usage']_vars

C10_Witness ==
    /\ pc = "done"
    /\ result = "UnsupportedProofVariant"
    /\ remote_receipt # <<>>
    /\ decoded = [local |-> 1, remote |-> 0]
    /\ assumed.local = 1

\* C10 (as claimed): at the end of a run every receipt that was created has
\* had its journal decoded exactly once and was an assumption at most once.
C10_DecodedExactlyOnce ==
    pc = "done" =>
        /\ local_receipt # <<>> => decoded.local = 1 /\ assumed.local <= 1
        /\ remote_receipt # <<>> => decoded.remote = 1 /\ assumed.remote = 0

====
